---- MODULE Spec2Model ----
(***************************************************************************)
(* A model of react-url-params-state: the useQueryParams hook              *)
(* (useQueryParams.ts), its codec `v`, the process-wide history patch      *)
(* (patchHistory / unpatchHistory / pushStateEventManager) and the browser *)
(* objects it drives (window.location, window.history, popstate).          *)
(***************************************************************************)
EXTENDS Integers, Sequences, FiniteSets, TLC

(***************************************************************************)
(* Bounds of the model.                                                    *)
(***************************************************************************)
\* number of hook instances (components calling useQueryParams)
NumInst == 2
\* length of the browser's session history
MaxHist == 2

Instances == 1..NumInst

(***************************************************************************)
(* JavaScript values.  A value is a record tagged by t.  Arrays, Dates and *)
(* objects are reference values: ref tells which object it is, "fresh" for *)
(* an object created by the read that returned it, "default" for the one   *)
(* object held in options.defaultValues, "arg" for a caller's argument.    *)
(***************************************************************************)
Undefined == [t |-> "undefined"]
Str(s) == [t |-> "string", s |-> s]
Num(n) == [t |-> "number", n |-> n]
NonFinite == [t |-> "nonfinite"]
Bool(b) == [t |-> "boolean", b |-> b]
DateV(ms, ref) == [t |-> "date", ms |-> ms, ref |-> ref]
InvalidDate == [t |-> "invaliddate"]
Arr(a, ref) == [t |-> "array", a |-> a, ref |-> ref]
Obj(o, ref) == [t |-> "object", o |-> o, ref |-> ref]

\* string | null
Null == [some |-> FALSE]
Some(s) == [some |-> TRUE, s |-> s]

(***************************************************************************)
(* String conversions of the platform, as tables over the strings of the   *)
(* model: Number(s), String(n), new Date(s), Date.toISOString(),           *)
(* JSON.parse(decodeURIComponent(s)), encodeURIComponent(JSON.stringify()).*)
(***************************************************************************)
NumberLiterals ==
    { <<"0", 0>>, <<"1", 1>>, <<"2", 2>>, <<"3", 3>>, <<"-1", -1>>,
      <<"01", 1>>, <<"", 0>>, <<"2.0", 2>> }

\* Number(s) is finite
IsNumeric(s) == \E e \in NumberLiterals : e[1] = s

NumberOf(s) == (CHOOSE e \in NumberLiterals : e[1] = s)[2]

\* String(n) for a finite n
StringOfNumber(n) ==
    CASE n = 0 -> "0" [] n = 1 -> "1" [] n = 2 -> "2" [] n = 3 -> "3"
      [] n = -1 -> "-1"

DateLiterals ==
    { <<"1970-01-01T00:00:00.000Z", 0>>, <<"1970-01-01", 0>>,
      <<"1970-01-01T00:00:00.001Z", 1>> }

IsDateString(s) == \E e \in DateLiterals : e[1] = s

DateOf(s) == (CHOOSE e \in DateLiterals : e[1] = s)[2]

\* every date written as the epoch
ToISOStringEpoch(ms) == "1970-01-01T00:00:00.000Z"

ToISOString(ms) ==
    CASE ms = 0 -> "1970-01-01T00:00:00.000Z"
      [] ms = 1 -> "1970-01-01T00:00:00.001Z"

\* JSON.parse(decodeURIComponent(s)): the texts that parse, with the value
JsonLiterals ==
    { <<"%7B%22a%22%3A1%7D", Obj("a1", "fresh")>>,
      <<"{\"a\":1}", Obj("a1", "fresh")>>,
      <<"%7B%7D", Obj("empty", "fresh")>>,
      <<"1", Num(1)>>,
      <<"%22x%22", Str("x")>> }

IsJson(s) == \E e \in JsonLiterals : e[1] = s

JsonOf(s) == (CHOOSE e \in JsonLiterals : e[1] = s)[2]

\* encodeURIComponent(JSON.stringify(value)); JSON.stringify(undefined) is
\* undefined and encodeURIComponent(undefined) is "undefined"
EncodedJson(value) ==
    CASE value.t = "object" /\ value.o = "a1" -> Some("%7B%22a%22%3A1%7D")
      [] value.t = "object" /\ value.o = "empty" -> Some("%7B%7D")
      [] value.t = "object" /\ value.o = "cyclic" -> Null
      [] value.t = "number" -> Some(StringOfNumber(value.n))
      [] value.t = "string" /\ value.s = "x" -> Some("%22x%22")
      [] value.t = "undefined" -> Some("undefined")
      [] OTHER -> Some("null")

\* F at the value of x: a statement sequence `const v = x; return F(v)`,
\* in which x is evaluated once
Eval(x, F(_)) == CHOOSE y \in {F(v) : v \in {x}} : TRUE

(***************************************************************************)
(* URLSearchParams: an ordered list of key/value pairs.                    *)
(***************************************************************************)
Pair(key, val) == [k |-> key, v |-> val]

spGetAll(sp, key) ==
    LET hits == SelectSeq(sp, LAMBDA p : p.k = key)
    IN  [i \in 1..Len(hits) |-> hits[i].v]

spGet(sp, key) ==
    LET all == spGetAll(sp, key)
    IN  IF Len(all) = 0 THEN Null ELSE Some(all[1])

spDelete(sp, key) == SelectSeq(sp, LAMBDA p : p.k # key)

spAppend(sp, key, val) == Append(sp, Pair(key, val))

\* a set that keeps nothing but the pair it sets
spSetAlone(sp, key, val) == <<Pair(key, val)>>

\* set: the first pair of the key takes the value, the others are removed;
\* appended when the key has no pair
spSet(sp, key, val) ==
    LET at == {i \in 1..Len(sp) : sp[i].k = key}
    IN  IF at = {}
        THEN Append(sp, Pair(key, val))
        ELSE LET f == CHOOSE i \in at : \A j \in at : i <= j
             IN  SubSeq(sp, 1, f - 1) \o <<Pair(key, val)>>
                     \o spDelete(SubSeq(sp, f + 1, Len(sp)), key)

\* a.localeCompare(b) on the keys of the model: their alphabetical rank
KeyOrder == <<"a", "b", "c", "d", "e", "f", "n", "o", "page", "q", "tags", "z">>

KeyRanks ==
    [key \in {KeyOrder[i] : i \in 1..Len(KeyOrder)} |->
        CHOOSE i \in 1..Len(KeyOrder) : KeyOrder[i] = key]

KeyRank(key) == KeyRanks[key]

\* Array.prototype.sort is stable: a pair goes after the pairs whose key
\* does not compare greater
InsertSorted(sorted, p) ==
    LET before == SelectSeq(sorted, LAMBDA q : KeyRank(q.k) <= KeyRank(p.k))
        after == SelectSeq(sorted, LAMBDA q : KeyRank(q.k) > KeyRank(p.k))
    IN  before \o <<p>> \o after

\* the first n entries, sorted
RECURSIVE SortFirst(_, _)
SortFirst(sp, n) ==
    IF n = 0
    THEN <<>>
    ELSE Eval(SortFirst(sp, n - 1), LAMBDA sorted : InsertSorted(sorted, sp[n]))

SortEntries(sp) == SortFirst(sp, Len(sp))

\* The text of a query string: the pairs it parses to, and whether it is the
\* text URLSearchParams.toString() writes for these pairs ("?a" and "?a="
\* parse to the same pairs; only the second is canonical).
QueryText(pairs, canon) == [pairs |-> pairs, canon |-> canon]

\* new URLSearchParams(text)
ParseQuery(text) == text.pairs

\* sp.toString()
spToString(sp) == QueryText(sp, TRUE)

\* the entries serialized in the order they stand in
toUnsortedQueryString(sp) == spToString(sp)

toSortedQueryString(sp) == spToString(SortEntries(sp))

(***************************************************************************)
(* The address: window.location.                                           *)
(***************************************************************************)
Address(pathname, search, hash) ==
    [pathname |-> pathname, search |-> search, hash |-> hash]

getSearchParams(loc) == ParseQuery(loc.search)

(***************************************************************************)
(* The arguments of useQueryParams(config, options), as a profile:         *)
(*   config          the type map, as the list of its keys in key order    *)
(*   sortKeys, defaultHistory ("unset" when the option is not given)       *)
(*   defaultValues   key -> value (Undefined when none)                    *)
(*   validation      key -> name of the validator ("none" when none)       *)
(*   custom          key -> name of the custom serializer pair             *)
(*   onError         whether an error callback is given                    *)
(***************************************************************************)
ConfigKeys(prof) == {prof.config[n].k : n \in 1..Len(prof.config)}

TypeOf(prof, key) ==
    prof.config[CHOOSE n \in 1..Len(prof.config) : prof.config[n].k = key].type

\* defaultHistory = 'replace' when the option is absent
DefaultHistory(prof) ==
    IF prof.defaultHistory = "unset" THEN "replace" ELSE prof.defaultHistory

\* validator(value), for the validators of the model
Validate(name, value) ==
    CASE name = "positive" -> value.t = "number" /\ value.n > 0
      [] name = "nonempty" ->
            \/ value.t = "string" /\ value.s # ""
            \/ value.t = "array" /\ Len(value.a) > 0
      [] OTHER -> TRUE

\* value == null
Nullish(value) == value.t = "undefined"

\* !value
Falsy(value) ==
    \/ value.t \in {"undefined", "nonfinite"}
    \/ value.t = "string" /\ value.s = ""
    \/ value.t = "number" /\ value.n = 0
    \/ value.t = "boolean" /\ ~value.b

\* a ?? b
Coalesce(a, b) == IF Nullish(a) THEN b ELSE a

ErrorCall(key, kind, value) == [key |-> key, kind |-> kind, value |-> value]

(***************************************************************************)
(* The codec v.  Each operator returns its result with the onError calls   *)
(* it made.                                                                *)
(***************************************************************************)
Reported(hasOnError, key, kind, value) ==
    IF hasOnError THEN <<ErrorCall(key, kind, value)>> ELSE <<>>

\* customSerializers[key].parse, for the custom codecs of the model
CustomParserThrows(custom, s) == custom = "throwing"

CustomParserResult(custom, s) ==
    CASE custom = "flag" -> IF s = "on" THEN Bool(TRUE) ELSE Undefined
      [] OTHER -> Str(s)

\* every raw string taken as it is, whatever the type
parseSingleAsString(value, type, customParser, hasOnError, key) ==
    [val |-> IF value.some THEN Str(value.s) ELSE Undefined, errs |-> <<>>]

parseSingle(value, type, customParser, hasOnError, key) ==
    IF ~value.some
    THEN [val |-> Undefined, errs |-> <<>>]
    ELSE LET s == value.s
             threw == [val |-> Undefined,
                       errs |-> Reported(hasOnError, key, "parse", Str(s))]
             ok(x) == [val |-> x, errs |-> <<>>]
         IN  IF customParser # "none"
             THEN IF CustomParserThrows(customParser, s)
                  THEN threw
                  ELSE ok(CustomParserResult(customParser, s))
             ELSE CASE type = "string" -> ok(Str(s))
                    [] type = "number" ->
                          IF IsNumeric(s) THEN ok(Num(NumberOf(s))) ELSE threw
                    [] type = "boolean" ->
                          IF s \in {"true", "1"} THEN ok(Bool(TRUE))
                          ELSE IF s \in {"false", "0"} THEN ok(Bool(FALSE))
                          ELSE threw
                    [] type = "date" ->
                          IF IsDateString(s)
                          THEN ok(DateV(DateOf(s), "fresh"))
                          ELSE threw
                    [] OTHER -> ok(Undefined)

\* customSerializers[key].serialize, for the custom codecs of the model
CustomSerializerThrows(custom, value) == custom = "throwing"

CustomSerializerResult(custom, value) ==
    CASE custom = "flag" ->
            IF value.t = "boolean" /\ value.b THEN Some("on") ELSE Some("off")
      [] OTHER -> IF value.t = "string" THEN Some(value.s) ELSE Null

serializeSingle(value, type, customSerializer, hasOnError, key) ==
    LET ok(x) == [res |-> x, errs |-> <<>>]
    IN  IF customSerializer # "none"
        THEN IF CustomSerializerThrows(customSerializer, value)
             THEN [res |-> Null,
                   errs |-> Reported(hasOnError, key, "serialize", value)]
             ELSE ok(CustomSerializerResult(customSerializer, value))
        ELSE CASE type = "string" ->
                    ok(IF value.t = "string" THEN Some(value.s) ELSE Null)
               [] type = "number" ->
                    ok(IF value.t = "number"
                       THEN Some(StringOfNumber(value.n)) ELSE Null)
               [] type = "boolean" ->
                    ok(IF value.t = "boolean"
                       THEN Some(IF value.b THEN "true" ELSE "false")
                       ELSE Null)
               [] type = "date" ->
                    IF value.t = "date" THEN ok(Some(ToISOString(value.ms)))
                    ELSE IF value.t = "invaliddate"
                    THEN [res |-> Null,
                          errs |-> Reported(hasOnError, key, "serialize", value)]
                    ELSE ok(Null)
               [] OTHER -> ok(Null)

parseObject(value) ==
    IF ~value.some THEN Undefined
    ELSE IF IsJson(value.s) THEN JsonOf(value.s) ELSE Undefined

serializeObject(value) == EncodedJson(value)

isStringArray(value) == value.t = "array"

\* a read that keeps the decoded value of a key whatever its validator says
ReadKeyUnvalidated(prof, sp, key) ==
    LET type == TypeOf(prof, key)
        dflt == prof.defaultValues[key]
        parsed == parseSingle(spGet(sp, key), type, prof.custom[key],
                              prof.onError, key)
    IN  [val |-> IF type = "string[]"
                 THEN Arr(spGetAll(sp, key), "fresh")
                 ELSE Coalesce(parsed.val, dflt),
         errs |-> IF type = "string[]" THEN <<>> ELSE parsed.errs,
         vcalls |-> <<>>]

(***************************************************************************)
(* getParams: the snapshot read from the address.  Returns the snapshot    *)
(* (out), the onError calls (errs) and the validator calls (vcalls) of the *)
(* read, in order.                                                         *)
(***************************************************************************)
\* a read that validates the default it substitutes for a rejected value
ReadKeyRevalidating(prof, sp, key) ==
    LET dflt == prof.defaultValues[key]
        validator == prof.validation[key]
        raw == spGet(sp, key)
        out == IF TypeOf(prof, key) = "number" /\ raw.some /\ IsNumeric(raw.s)
               THEN Num(NumberOf(raw.s)) ELSE dflt
        validated == validator # "none" /\ ~Nullish(out)
        failed == validated /\ ~Validate(validator, out)
    IN  [val |-> IF failed THEN dflt ELSE out,
         errs |-> IF failed THEN Reported(prof.onError, key, "validation", out)
                  ELSE <<>>,
         vcalls |-> IF ~validated THEN <<>>
                    ELSE IF failed
                    THEN <<[key |-> key, value |-> out], [key |-> key, value |-> dflt]>>
                    ELSE <<[key |-> key, value |-> out]>>]

ReadKey(prof, sp, key) ==
    LET type == TypeOf(prof, key)
        dflt == prof.defaultValues[key]
        decoded ==
            IF type = "string[]"
            THEN LET values == spGetAll(sp, key)
                 IN  [val |-> IF Len(values) > 0 THEN Arr(values, "fresh")
                              ELSE IF Falsy(dflt) THEN Arr(<<>>, "fresh")
                              ELSE dflt,
                      errs |-> <<>>]
            ELSE IF type = "object"
            THEN [val |-> Coalesce(parseObject(spGet(sp, key)), dflt),
                  errs |-> <<>>]
            ELSE LET parsed == parseSingle(spGet(sp, key), type,
                                           prof.custom[key], prof.onError, key)
                 IN  [val |-> Coalesce(parsed.val, dflt), errs |-> parsed.errs]
        validator == prof.validation[key]
        Checked(out) ==
            LET validated == validator # "none" /\ ~Nullish(out.val)
                failed == validated /\ ~Validate(validator, out.val)
            IN  [val |-> IF failed THEN dflt ELSE out.val,
                 errs |-> out.errs \o
                          (IF failed
                           THEN Reported(prof.onError, key, "validation", out.val)
                           ELSE <<>>),
                 vcalls |-> IF validated THEN <<[key |-> key, value |-> out.val]>>
                            ELSE <<>>]
    IN  Eval(decoded, Checked)

RECURSIVE ReadKeys(_, _, _)
ReadKeys(prof, sp, n) ==
    IF n = 0
    THEN [out |-> <<>>, errs |-> <<>>, vcalls |-> <<>>]
    ELSE LET key == prof.config[n].k
             Add(prev, r) == [out |-> (key :> r.val) @@ prev.out,
                              errs |-> prev.errs \o r.errs,
                              vcalls |-> prev.vcalls \o r.vcalls]
         IN  Eval(ReadKeys(prof, sp, n - 1), LAMBDA prev :
                 Eval(ReadKey(prof, sp, key), LAMBDA r : Add(prev, r)))

getParams(prof, loc) == ReadKeys(prof, getSearchParams(loc), Len(prof.config))

(***************************************************************************)
(* shallowEqual and the state updater of setParams.                        *)
(***************************************************************************)
\* a === b: reference values are equal when they are the same object, and of
\* two values of different reads only the object of defaultValues is
StrictEquals(a, b) ==
    IF a.t \in {"array", "date", "object"}
    THEN a = b /\ a.ref = "default"
    ELSE a = b

shallowEqual(a, b) ==
    /\ Cardinality(DOMAIN a) = Cardinality(DOMAIN b)
    /\ \A k \in DOMAIN a : k \in DOMAIN b /\ StrictEquals(a[k], b[k])

\* { ...prev, ...next }
Merged(prev, next) ==
    [k \in DOMAIN prev \cup DOMAIN next |->
        IF k \in DOMAIN next THEN next[k] ELSE prev[k]]

\* the updater passed to _setParams
setParams(prev, next) == IF shallowEqual(prev, next) THEN prev ELSE Merged(prev, next)

(***************************************************************************)
(* The configurations of the model, with the values callers pass for each  *)
(* key (inputs) and the addresses a page using the configuration is loaded *)
(* with (loads).                                                           *)
(***************************************************************************)
NoKeys(config, x) == [k \in {config[n].k : n \in 1..Len(config)} |-> x]

ConfigPaged ==
    <<[k |-> "page", type |-> "number"], [k |-> "tags", type |-> "string[]"]>>

ConfigSorted ==
    <<[k |-> "tags", type |-> "string[]"], [k |-> "b", type |-> "string"],
      [k |-> "a", type |-> "string"]>>

ConfigLimit == <<[k |-> "page", type |-> "number"]>>

ConfigTyped == <<[k |-> "f", type |-> "boolean"], [k |-> "d", type |-> "date"]>>

ConfigBlob == <<[k |-> "q", type |-> "string"], [k |-> "o", type |-> "object"]>>

ConfigCustom ==
    <<[k |-> "c", type |-> "boolean"], [k |-> "e", type |-> "string"],
      [k |-> "n", type |-> "number"]>>

Query(pairs) == QueryText(pairs, TRUE)

\* the same pairs in a text URLSearchParams would not write
RawQuery(pairs) == QueryText(pairs, FALSE)

Root == Address("/", Query(<<>>), "")

Profiles ==
    << \* {page: 'number', tags: 'string[]'}, default page 1, validator page > 0
       [config |-> ConfigPaged, sortKeys |-> FALSE, defaultHistory |-> "unset",
        defaultValues |-> [NoKeys(ConfigPaged, Undefined) EXCEPT !["page"] = Num(1)],
        validation |-> [NoKeys(ConfigPaged, "none") EXCEPT !["page"] = "positive"],
        custom |-> NoKeys(ConfigPaged, "none"), onError |-> TRUE,
        inputs |-> [page |-> {Num(2), Undefined},
                    tags |-> {Arr(<<"a", "b">>, "arg"), Arr(<<>>, "arg"), Str("a")}],
        loads |-> { Root,
                    Address("/p", Query(<<Pair("page", "-1")>>), "#h"),
                    Address("/p", RawQuery(<<Pair("page", "abc"), Pair("z", "9")>>), "#h"),
                    Address("/p", Query(<<Pair("tags", "a"), Pair("z", "9")>>), ""),
                    Address("/", RawQuery(<<Pair("z", "9"), Pair("page", "01"),
                                            Pair("page", "3")>>), "#h") }],
       \* {tags: 'string[]', b: 'string', a: 'string'}, sortKeys, push by default
       [config |-> ConfigSorted, sortKeys |-> TRUE, defaultHistory |-> "push",
        defaultValues |-> NoKeys(ConfigSorted, Undefined),
        validation |-> NoKeys(ConfigSorted, "none"),
        custom |-> NoKeys(ConfigSorted, "none"), onError |-> FALSE,
        inputs |-> [tags |-> {Arr(<<"b", "a">>, "arg"), Arr(<<>>, "arg")},
                    b |-> {Str("x")},
                    a |-> {Str("y"), Undefined}],
        loads |-> { Root,
                    Address("/p", Query(<<Pair("z", "9"), Pair("b", "x")>>), "#h"),
                    Address("/p", RawQuery(<<Pair("tags", "b"), Pair("a", "x"),
                                             Pair("tags", "a")>>), ""),
                    Address("/", Query(<<Pair("a", "y"), Pair("z", "9"),
                                         Pair("z", "8")>>), "#h") }],
       \* {page: 'number'}, validator page > 0 and a default that fails it
       [config |-> ConfigLimit, sortKeys |-> FALSE, defaultHistory |-> "replace",
        defaultValues |-> [page |-> Num(0)],
        validation |-> [page |-> "positive"],
        custom |-> [page |-> "none"], onError |-> TRUE,
        inputs |-> [page |-> {Num(2), Num(-1), Undefined}],
        loads |-> { Root,
                    Address("/p", Query(<<Pair("page", "-1")>>), "#h"),
                    Address("/p", RawQuery(<<Pair("z", "9"), Pair("page", "2.0")>>), "") }],
       \* {f: 'boolean', d: 'date'}, default d the epoch
       [config |-> ConfigTyped, sortKeys |-> FALSE, defaultHistory |-> "unset",
        defaultValues |-> [f |-> Undefined, d |-> DateV(0, "default")],
        validation |-> NoKeys(ConfigTyped, "none"),
        custom |-> NoKeys(ConfigTyped, "none"), onError |-> TRUE,
        inputs |-> [f |-> {Bool(TRUE), Bool(FALSE), Str("true")},
                    d |-> {DateV(1, "arg"), InvalidDate, Undefined}],
        loads |-> { Root,
                    Address("/p", RawQuery(<<Pair("f", "maybe"),
                                             Pair("d", "1970-01-01")>>), ""),
                    Address("/p", RawQuery(<<Pair("d", "soon"), Pair("f", "1")>>), "#h") }],
       \* {q: 'string', o: 'object'}
       [config |-> ConfigBlob, sortKeys |-> FALSE, defaultHistory |-> "unset",
        defaultValues |-> NoKeys(ConfigBlob, Undefined),
        validation |-> NoKeys(ConfigBlob, "none"),
        custom |-> NoKeys(ConfigBlob, "none"), onError |-> TRUE,
        inputs |-> [q |-> {Str("x"), Str(""), Num(1)},
                    o |-> {Obj("a1", "arg"), Obj("cyclic", "arg"), Undefined}],
        loads |-> { Root,
                    Address("/p", Query(<<Pair("o", "%7B%7D"), Pair("q", "x")>>), "#h"),
                    Address("/p", RawQuery(<<Pair("o", "oops")>>), "") }],
       \* {c: 'boolean', e: 'string', n: 'number'}, customSerializers for c
       \* (on/off) and for e (both functions throw)
       [config |-> ConfigCustom, sortKeys |-> FALSE, defaultHistory |-> "unset",
        defaultValues |-> [c |-> Undefined, e |-> Str("dflt"), n |-> Undefined],
        validation |-> NoKeys(ConfigCustom, "none"),
        custom |-> [c |-> "flag", e |-> "throwing", n |-> "none"], onError |-> TRUE,
        inputs |-> [c |-> {Bool(TRUE), Bool(FALSE)},
                    e |-> {Str("x")},
                    n |-> {Num(0), NonFinite, Str("1")}],
        loads |-> { Root,
                    Address("/p", RawQuery(<<Pair("c", "on"), Pair("e", "boom"),
                                             Pair("n", "Infinity")>>), "#h") }] >>

ProfileIds == 1..Len(Profiles)

(***************************************************************************)
(* State.                                                                  *)
(***************************************************************************)
VARIABLES
    hist,                 \* the session history: the addresses of its entries
    idx,                  \* the current entry; window.location is hist[idx]
    historyPushState,     \* history.pushState: "native" or "wrapper"
    historyReplaceState,  \* history.replaceState: "native" or "wrapper"
    isHistoryPatched,
    originalPushState,    \* "null", "native" or "wrapper"
    originalReplaceState,
    patchCount,
    subs,                 \* pushStateEventManager's subs: handlers, by instance
    popListeners,         \* window's popstate listeners, in registration order
    inst,                 \* per instance: mounted, its profile, its held state
    log                   \* what the last operation did

vars ==
    <<hist, idx, historyPushState, historyReplaceState, isHistoryPatched,
      originalPushState, originalReplaceState, patchCount, subs, popListeners,
      inst, log>>

location == hist[idx]

Unmounted ==
    [mounted |-> FALSE, prof |-> 0, params |-> <<>>, errs |-> <<>>, vcalls |-> <<>>]

ProfileOf(i) == Profiles[inst[i].prof]

\* The record of the operation in progress: the operation, the instance and
\* arguments, whether it is the patch before it called again (again), the
\* native pushState/replaceState calls it made (commits), the handler
\* invocations in order (calls), those that changed held state (pubs) and
\* the onError calls made by the patch routine itself (errs).
LogEntry(op, i, patch, mode, again, commits, calls, pubs, errs) ==
    [op |-> op, inst |-> i, patch |-> patch, mode |-> mode, again |-> again,
     commits |-> commits, calls |-> calls, pubs |-> pubs, errs |-> errs]

\* between two operations
Idle == LogEntry("idle", 0, <<>>, "unset", FALSE, <<>>, <<>>, <<>>, <<>>)

(***************************************************************************)
(* The browser's history primitives.                                       *)
(***************************************************************************)
\* history.pushState natively: the entries after the current one are
\* dropped and the new entry becomes the current one
NativePushState(h, at, url) == [hist |-> SubSeq(h, 1, at) \o <<url>>, idx |-> at + 1]

\* history.replaceState natively: the current entry takes the address
NativeReplaceState(h, at, url) == [hist |-> [h EXCEPT ![at] = url], idx |-> at]

(***************************************************************************)
(* The handler `handle` of an instance, and a broadcast to a list of       *)
(* handlers.  A run is [inst, calls, pubs].                                *)
(***************************************************************************)
handle(run, i, loc) ==
    LET prev == run.inst[i].params
        Publish(read) ==
            [inst |-> [run.inst EXCEPT ![i] =
                          [@ EXCEPT !.params = setParams(prev, read.out),
                                    !.errs = read.errs,
                                    !.vcalls = read.vcalls]],
             calls |-> Append(run.calls, i),
             pubs |-> IF shallowEqual(prev, read.out) THEN run.pubs
                      ELSE Append(run.pubs, i)]
    IN  Eval(getParams(Profiles[run.inst[i].prof], loc), Publish)

\* subs.forEach((cb) => cb())
RECURSIVE notify(_, _, _)
notify(run, listeners, loc) ==
    IF Len(listeners) = 0
    THEN run
    ELSE Eval(handle(run, Head(listeners), loc),
              LAMBDA ran : notify(ran, Tail(listeners), loc))

(***************************************************************************)
(* patchHistory / unpatchHistory, on the record of the module's variables  *)
(* and of the two properties of window.history.                            *)
(***************************************************************************)
PatchState ==
    [isHistoryPatched |-> isHistoryPatched,
     originalPushState |-> originalPushState,
     originalReplaceState |-> originalReplaceState,
     patchCount |-> patchCount,
     pushState |-> historyPushState,
     replaceState |-> historyReplaceState]

\* a patch that does not look at isHistoryPatched
patchHistoryAgain(ps) ==
    [isHistoryPatched |-> TRUE,
     originalPushState |-> ps.pushState,
     originalReplaceState |-> ps.replaceState,
     patchCount |-> ps.patchCount + 1,
     pushState |-> "wrapper",
     replaceState |-> "wrapper"]

patchHistory(ps) ==
    IF ps.isHistoryPatched
    THEN ps
    ELSE [isHistoryPatched |-> TRUE,
          originalPushState |-> ps.pushState,
          originalReplaceState |-> ps.replaceState,
          patchCount |-> ps.patchCount + 1,
          pushState |-> "wrapper",
          replaceState |-> "wrapper"]

\* an unpatch that only counts down
unpatchHistoryCounting(ps) == [ps EXCEPT !.patchCount = @ - 1]

unpatchHistory(ps) ==
    IF ~ps.isHistoryPatched
    THEN ps
    ELSE LET count == ps.patchCount - 1
         IN  IF /\ count <= 0
                /\ ps.originalPushState # "null"
                /\ ps.originalReplaceState # "null"
             THEN [isHistoryPatched |-> FALSE,
                   originalPushState |-> "null",
                   originalReplaceState |-> "null",
                   patchCount |-> 0,
                   pushState |-> ps.originalPushState,
                   replaceState |-> ps.originalReplaceState]
             ELSE [ps EXCEPT !.patchCount = count]

SetPatchState(ps) ==
    /\ isHistoryPatched' = ps.isHistoryPatched
    /\ originalPushState' = ps.originalPushState
    /\ originalReplaceState' = ps.originalReplaceState
    /\ patchCount' = ps.patchCount
    /\ historyPushState' = ps.pushState
    /\ historyReplaceState' = ps.replaceState

PatchStateUnchanged ==
    UNCHANGED <<isHistoryPatched, originalPushState, originalReplaceState,
                patchCount, historyPushState, historyReplaceState>>

(***************************************************************************)
(* A call of window.history[fn]({}, '', url).  A world is the session      *)
(* history with the run of handlers so far: [hist, idx, commits, run].     *)
(***************************************************************************)
NativeCall(world, fn, url) ==
    LET h == IF fn = "pushState"
             THEN NativePushState(world.hist, world.idx, url)
             ELSE NativeReplaceState(world.hist, world.idx, url)
    IN  [world EXCEPT !.hist = h.hist, !.idx = h.idx,
                      !.commits = Append(@, fn)]

\* the wrapper installed by patchHistory: the original, then notify()
WrapperCall(world, fn, url) ==
    LET original == IF fn = "pushState" THEN originalPushState
                    ELSE originalReplaceState
    IN  IF original = "native"
        THEN Eval(NativeCall(world, fn, url), LAMBDA done :
                 [done EXCEPT !.run = notify(@, subs, done.hist[done.idx])])
        ELSE world

HistoryCall(world, fn, url) ==
    LET installed == IF fn = "pushState" THEN historyPushState
                     ELSE historyReplaceState
    IN  IF installed = "wrapper"
        THEN WrapperCall(world, fn, url)
        ELSE NativeCall(world, fn, url)

\* an address change made twice, each with its broadcast
applyUrlTwice(world, newUrl, mode) ==
    LET fn == IF mode = "push" THEN "pushState" ELSE "replaceState"
        Once(w) ==
            Eval(HistoryCall(w, fn, newUrl), LAMBDA done :
                [done EXCEPT !.run = notify(@, subs, done.hist[done.idx])])
    IN  Eval(Once(world), Once)

\* the history call alone, without the broadcast after it
applyUrlSilent(world, newUrl, mode) ==
    HistoryCall(world, IF mode = "push" THEN "pushState" ELSE "replaceState", newUrl)

applyUrl(world, newUrl, mode) ==
    LET fn == IF mode = "push" THEN "pushState" ELSE "replaceState"
    IN  Eval(HistoryCall(world, fn, newUrl), LAMBDA done :
            [done EXCEPT !.run = notify(@, subs, done.hist[done.idx])])

World == [hist |-> hist, idx |-> idx, commits |-> <<>>,
          run |-> [inst |-> inst, calls |-> <<>>, pubs |-> <<>>]]

(***************************************************************************)
(* syncParams: the patch applied to the search parameters, key by key in   *)
(* the patch's key order.  A patch is the list of its [k, val] entries.    *)
(***************************************************************************)
RECURSIVE AppendAll(_, _, _)
AppendAll(sp, key, values) ==
    IF Len(values) = 0 THEN sp
    ELSE AppendAll(spAppend(sp, key, Head(values)), key, Tail(values))

\* a patch of one key that appends to the values the key has
PatchKeyAppending(prof, sp, key, nextVal) ==
    LET serialized == serializeSingle(nextVal, TypeOf(prof, key),
                                      prof.custom[key], prof.onError, key)
    IN  IF TypeOf(prof, key) = "string[]"
        THEN [sp |-> IF isStringArray(nextVal)
                     THEN AppendAll(sp, key, nextVal.a) ELSE sp,
              errs |-> <<>>]
        ELSE [sp |-> IF serialized.res.some
                     THEN spSet(sp, key, serialized.res.s)
                     ELSE spDelete(sp, key),
              errs |-> serialized.errs]

PatchKey(prof, sp, key, nextVal) ==
    LET type == TypeOf(prof, key)
    IN  IF type = "string[]"
        THEN [sp |-> IF isStringArray(nextVal) /\ Len(nextVal.a) > 0
                     THEN AppendAll(spDelete(sp, key), key, nextVal.a)
                     ELSE spDelete(sp, key),
              errs |-> <<>>]
        ELSE IF type = "object"
        THEN LET serialized == serializeObject(nextVal)
             IN  [sp |-> IF serialized.some THEN spSet(sp, key, serialized.s)
                         ELSE spDelete(sp, key),
                  errs |-> <<>>]
        ELSE LET serialized == serializeSingle(nextVal, type, prof.custom[key],
                                               prof.onError, key)
             IN  [sp |-> IF serialized.res.some
                         THEN spSet(sp, key, serialized.res.s)
                         ELSE spDelete(sp, key),
                  errs |-> serialized.errs]

RECURSIVE PatchKeys(_, _, _)
PatchKeys(prof, sp, patch) ==
    IF Len(patch) = 0
    THEN [sp |-> sp, errs |-> <<>>]
    ELSE Eval(PatchKey(prof, sp, patch[1].k, patch[1].val), LAMBDA first :
             Eval(PatchKeys(prof, first.sp, Tail(patch)), LAMBDA rest :
                 [sp |-> rest.sp, errs |-> first.errs \o rest.errs]))

\* sortKeys ? toSortedQueryString(sp) : sp.toString()
QueryStringOf(prof, sp) ==
    IF prof.sortKeys THEN toSortedQueryString(sp) ELSE spToString(sp)

\* the new address without the hash
NewUrlWithoutHash(loc, after) == Address(loc.pathname, after, "")

\* pathname + (after ? `?${after}` : '') + hash
NewUrl(loc, after) == Address(loc.pathname, after, loc.hash)

\* the configured mode, whatever mode the call gives
ModeOfOptions(prof, mode) == DefaultHistory(prof)

\* mode ?? defaultHistory
ModeOf(prof, mode) == IF mode = "unset" THEN DefaultHistory(prof) ELSE mode

\* a patch that commits without comparing the query strings
syncParamsUnguarded(world, prof, patch, mode) ==
    LET loc == world.hist[world.idx]
        patched == PatchKeys(prof, getSearchParams(loc), patch)
    IN  [world |-> applyUrl(world, NewUrl(loc, QueryStringOf(prof, patched.sp)),
                            ModeOf(prof, mode)),
         errs |-> patched.errs]

syncParams(world, prof, patch, mode) ==
    LET loc == world.hist[world.idx]
        sp == getSearchParams(loc)
        before == QueryStringOf(prof, sp)
        Commit(patched, after) ==
            [world |-> IF after # before
                       THEN applyUrl(world, NewUrl(loc, after), ModeOf(prof, mode))
                       ELSE world,
             errs |-> patched.errs]
    IN  Eval(PatchKeys(prof, sp, patch), LAMBDA patched :
            Eval(QueryStringOf(prof, patched.sp), LAMBDA after :
                Commit(patched, after)))

(***************************************************************************)
(* Inputs.                                                                 *)
(***************************************************************************)
\* the mode argument of a patch; "unset" when it is omitted
Modes == {"unset", "push", "replace"}

PatchEntries(prof) ==
    UNION {{[k |-> key, val |-> x] : x \in prof.inputs[key]} :
              key \in DOMAIN prof.inputs}

\* patches of one key
SinglePatches(prof) == {<<e>> : e \in PatchEntries(prof)}

\* patches of two keys, in either key order
DoublePatches(prof) ==
    {<<ef[1], ef[2]>> :
        ef \in {x \in PatchEntries(prof) \X PatchEntries(prof) : x[1].k # x[2].k}}

\* the patches of each profile
PatchesOf ==
    [p \in ProfileIds |-> SinglePatches(Profiles[p]) \cup DoublePatches(Profiles[p])]

\* the patches of a page with several instances
MainPatchesOf ==
    << {<<[k |-> "page", val |-> Num(2)]>>,
        <<[k |-> "tags", val |-> Arr(<<"a", "b">>, "arg")]>>},
       {<<[k |-> "b", val |-> Str("x")]>>, <<[k |-> "tags", val |-> Arr(<<>>, "arg")]>>},
       {<<[k |-> "page", val |-> Num(-1)]>>} >>

\* the profile of each instance of a page with several instances
MainProfile(i) == ((i - 1) % Len(Profiles)) + 1

\* addresses other code of the page navigates to
ExtUrls ==
    { Root,
      Address("/list", RawQuery(<<Pair("tags", "a"), Pair("page", "-1")>>), "#h") }

(***************************************************************************)
(* Initial states.                                                         *)
(***************************************************************************)
Unpatched ==
    [isHistoryPatched |-> FALSE, originalPushState |-> "null",
     originalReplaceState |-> "null", patchCount |-> 0,
     pushState |-> "native", replaceState |-> "native"]

\* the held state of an instance whose first render read the address loc
Rendered(p, loc) ==
    Eval(getParams(Profiles[p], loc), LAMBDA read :
        [mounted |-> TRUE, prof |-> p, params |-> read.out, errs |-> read.errs,
         vcalls |-> read.vcalls])

\* a page just loaded at one of the addresses, nothing mounted
Init ==
    /\ \E u \in ExtUrls : hist = <<u>>
    /\ idx = 1
    /\ isHistoryPatched = Unpatched.isHistoryPatched
    /\ originalPushState = Unpatched.originalPushState
    /\ originalReplaceState = Unpatched.originalReplaceState
    /\ patchCount = Unpatched.patchCount
    /\ historyPushState = Unpatched.pushState
    /\ historyReplaceState = Unpatched.replaceState
    /\ subs = <<>>
    /\ popListeners = <<>>
    /\ inst = [i \in Instances |-> Unmounted]
    /\ log = Idle

(***************************************************************************)
(* Operations.  An operation starts when none is in progress and leaves    *)
(* its record in log; EventDone ends it.                                   *)
(***************************************************************************)
\* the first render (useState(() => getParams())) and the mount effect
Mount(i, p) ==
    /\ log.op = "idle"
    /\ ~inst[i].mounted
    /\ inst' = [inst EXCEPT ![i] = Rendered(p, location)]
    /\ SetPatchState(patchHistory(PatchState))
    /\ popListeners' = Append(popListeners, i)
    /\ subs' = Append(subs, i)
    /\ UNCHANGED <<hist, idx>>
    /\ log' = [Idle EXCEPT !.op = "mount", !.inst = i]

\* the cleanup of the mount effect
Unmount(i) ==
    /\ log.op = "idle"
    /\ inst[i].mounted
    /\ inst' = [inst EXCEPT ![i] = Unmounted]
    /\ popListeners' = SelectSeq(popListeners, LAMBDA j : j # i)
    /\ subs' = SelectSeq(subs, LAMBDA j : j # i)
    /\ SetPatchState(unpatchHistory(PatchState))
    /\ UNCHANGED <<hist, idx>>
    /\ log' = [Idle EXCEPT !.op = "unmount", !.inst = i]

SetWorld(world) ==
    /\ hist' = world.hist
    /\ idx' = world.idx
    /\ inst' = world.run.inst

\* a call of the patch function an instance returned
CallSyncParams(i, patch, mode, again) ==
    /\ inst[i].mounted
    /\ \E done \in {syncParams(World, ProfileOf(i), patch, mode)} :
           /\ done.world.idx <= MaxHist
           /\ SetWorld(done.world)
           /\ log' = LogEntry("patch", i, patch, mode, again, done.world.commits,
                              done.world.run.calls, done.world.run.pubs, done.errs)
    /\ PatchStateUnchanged
    /\ UNCHANGED <<subs, popListeners>>

SyncParams(i, patch, mode) ==
    /\ log.op = "idle"
    /\ CallSyncParams(i, patch, mode, FALSE)

\* the caller calls the patch function again with the same arguments
SyncParamsAgain ==
    /\ log.op = "patch"
    /\ CallSyncParams(log.inst, log.patch, log.mode, TRUE)

\* other code of the page calls history.pushState({}, '', url)
ExternalPushState(url) ==
    /\ log.op = "idle"
    /\ idx < MaxHist
    /\ \E done \in {HistoryCall(World, "pushState", url)} :
           /\ SetWorld(done)
           /\ log' = [Idle EXCEPT !.op = "pushState", !.commits = done.commits,
                                  !.calls = done.run.calls, !.pubs = done.run.pubs]
    /\ PatchStateUnchanged
    /\ UNCHANGED <<subs, popListeners>>

\* other code of the page calls history.replaceState({}, '', url)
ExternalReplaceState(url) ==
    /\ log.op = "idle"
    /\ \E done \in {HistoryCall(World, "replaceState", url)} :
           /\ SetWorld(done)
           /\ log' = [Idle EXCEPT !.op = "replaceState", !.commits = done.commits,
                                  !.calls = done.run.calls, !.pubs = done.run.pubs]
    /\ PatchStateUnchanged
    /\ UNCHANGED <<subs, popListeners>>

\* the user goes to another entry of the session history: popstate
Traverse(to, op) ==
    /\ log.op = "idle"
    /\ to \in 1..Len(hist)
    /\ \E done \in {notify(World.run, popListeners, hist[to])} :
           /\ inst' = done.inst
           /\ log' = [Idle EXCEPT !.op = op, !.calls = done.calls, !.pubs = done.pubs]
    /\ idx' = to
    /\ UNCHANGED hist
    /\ PatchStateUnchanged
    /\ UNCHANGED <<subs, popListeners>>

Back == Traverse(idx - 1, "back")

Forward == Traverse(idx + 1, "forward")

\* the operation in progress is over
EventDone ==
    /\ log.op # "idle"
    /\ log' = Idle
    /\ UNCHANGED <<hist, idx, inst, subs, popListeners>>
    /\ PatchStateUnchanged

Next ==
    \/ \E i \in Instances : Mount(i, MainProfile(i))
    \/ \E i \in Instances : Unmount(i)
    \/ \E i \in {j \in Instances : inst[j].mounted}, mode \in Modes :
          \E patch \in MainPatchesOf[inst[i].prof] : SyncParams(i, patch, mode)
    \/ \E url \in ExtUrls : ExternalPushState(url)
    \/ \E url \in ExtUrls : ExternalReplaceState(url)
    \/ Back
    \/ Forward
    \/ EventDone

Spec == Init /\ [][Next]_vars

(***************************************************************************)
(* One instance of any profile, mounted on a page loaded at one of the     *)
(* profile's addresses in a session history with room for one more entry,  *)
(* and patched.                                                            *)
(***************************************************************************)
InitPatch ==
    /\ \E p \in ProfileIds : \E a \in Profiles[p].loads :
          /\ hist = [n \in 1..(MaxHist - 1) |-> IF n = MaxHist - 1 THEN a ELSE Root]
          /\ inst = [i \in Instances |-> IF i = 1 THEN Rendered(p, a) ELSE Unmounted]
    /\ idx = MaxHist - 1
    /\ isHistoryPatched = patchHistory(Unpatched).isHistoryPatched
    /\ originalPushState = patchHistory(Unpatched).originalPushState
    /\ originalReplaceState = patchHistory(Unpatched).originalReplaceState
    /\ patchCount = patchHistory(Unpatched).patchCount
    /\ historyPushState = patchHistory(Unpatched).pushState
    /\ historyReplaceState = patchHistory(Unpatched).replaceState
    /\ subs = <<1>>
    /\ popListeners = <<1>>
    /\ log = Idle

NextPatch ==
    \/ \E mode \in Modes : \E patch \in PatchesOf[inst[1].prof] :
          SyncParams(1, patch, mode)
    \/ SyncParamsAgain
    \/ EventDone

SpecPatch == InitPatch /\ [][NextPatch]_vars

(***************************************************************************)
(* The life of the instances of a page: mounts, unmounts and remounts,     *)
(* with the navigation of other code and of the user in between.           *)
(***************************************************************************)
NextLife ==
    \/ \E i \in Instances : Mount(i, MainProfile(i))
    \/ \E i \in Instances : Unmount(i)
    \/ \E url \in ExtUrls : ExternalPushState(url)
    \/ \E url \in ExtUrls : ExternalReplaceState(url)
    \/ Back
    \/ Forward
    \/ EventDone

SpecLife == Init /\ [][NextLife]_vars

(***************************************************************************)
(* The instances of a page share the address: they mount, patch it in      *)
(* turn and unmount, and nothing else navigates.                           *)
(***************************************************************************)
NextShared ==
    \/ \E i \in Instances : Mount(i, MainProfile(i))
    \/ \E i \in Instances : Unmount(i)
    \/ \E i \in {j \in Instances : inst[j].mounted}, mode \in Modes :
          \E patch \in MainPatchesOf[inst[i].prof] : SyncParams(i, patch, mode)
    \/ EventDone

SpecShared == Init /\ [][NextShared]_vars

(***************************************************************************)
(* Properties.                                                             *)
(***************************************************************************)
Mounted == {i \in Instances : inst[i].mounted}

Intercepting == historyPushState = "wrapper" /\ historyReplaceState = "wrapper"

\* the profile of the instance whose patch log records
LogProfile == Profiles[inst[log.inst].prof]

\* the pairs of the current address
query == getSearchParams(location)

PatchedKeys(patch) == {patch[n].k : n \in 1..Len(patch)}

AllKeys == {KeyOrder[n] : n \in 1..Len(KeyOrder)}

\* C1: history interception is installed exactly while at least one
\* instance is mounted: after mounting two instances and unmounting one,
\* pushState/replaceState are still the wrappers, and the native primitives
\* are back only when no instance is mounted.
C1_InterceptedWhileMounted == (Mounted # {}) <=> Intercepting

\* C2: between operations, the snapshot every mounted instance holds is the
\* snapshot read from the current address.
C2_SnapshotMatchesAddress ==
    \A i \in Mounted : inst[i].params = getParams(ProfileOf(i), location).out

\* C3: a mount writes every key that has a default and is absent from the
\* address into the address, with the encoded default, replacing the
\* current history entry (the session history keeps its length).
C3_DefaultsMaterialized ==
    [][log'.op = "mount" =>
          LET prof == Profiles[inst'[log'.inst].prof]
          IN  /\ Len(hist') = Len(hist)
              /\ idx' = idx
              /\ \A key \in ConfigKeys(prof) :
                    (/\ TypeOf(prof, key) \in {"string", "number", "boolean", "date"}
                     /\ prof.defaultValues[key] # Undefined
                     /\ ~spGet(query, key).some)
                    => spGet(query', key) =
                          serializeSingle(prof.defaultValues[key], TypeOf(prof, key),
                                          "none", FALSE, key).res]_vars

\* C4: a patch whose resulting query string, canonicalized as the options
\* say, equals the current query string canonicalized the same way makes no
\* pushState/replaceState call and leaves the address and the session
\* history as they were.
C4_NoOpSuppressed ==
    [][log'.op = "patch" =>
          LET prof == Profiles[inst[log'.inst].prof]
              result == PatchKeys(prof, query, log'.patch).sp
          IN  QueryStringOf(prof, result) = QueryStringOf(prof, query)
              => log'.commits = <<>> /\ hist' = hist /\ idx' = idx]_vars

\* a patch of an instance that sorts keys, on an address that is not sorted
\* and already holds the patch's value, made no commit and left the address
C4_Witness ==
    /\ log.op = "patch"
    /\ ~log.again
    /\ log.commits = <<>>
    /\ LogProfile.sortKeys
    /\ log.patch = <<[k |-> "b", val |-> Str("x")]>>
    /\ query = <<Pair("z", "9"), Pair("b", "x")>>

\* C5: the same patch applied a second time makes no commit (and so leaves
\* the address as the first application left it).
C5_SecondPatchIsNoOp == (log.op = "patch" /\ log.again) => log.commits = <<>>

\* the mode a patch commits with, as the specification states it
StatedMode(prof, mode) ==
    IF mode # "unset" THEN mode
    ELSE IF prof.defaultHistory # "unset" THEN prof.defaultHistory
    ELSE "replace"

\* C6: a patch that commits makes one call, pushState when the mode given
\* (or, without one, the configured defaultHistory, or replace) is push and
\* replaceState otherwise; a push adds one entry after the current one and
\* makes it current, a replace adds none.
C6_ModeSelected ==
    [][(log'.op = "patch" /\ log'.commits # <<>>) =>
          LET m == StatedMode(Profiles[inst[log'.inst].prof], log'.mode)
          IN  /\ m = "push" =>
                    /\ log'.commits = <<"pushState">>
                    /\ Len(hist') = Len(hist) + 1
                    /\ idx' = idx + 1
                    /\ SubSeq(hist', 1, idx) = hist
              /\ m = "replace" =>
                    /\ log'.commits = <<"replaceState">>
                    /\ Len(hist') = Len(hist)
                    /\ idx' = idx
                    /\ \A n \in 1..Len(hist) : n # idx => hist'[n] = hist[n]]_vars

\* a patch given the mode push by an instance configured without
\* defaultHistory committed with pushState
C6_Witness ==
    /\ log.op = "patch"
    /\ log.mode = "push"
    /\ LogProfile.defaultHistory = "unset"
    /\ log.commits = <<"pushState">>
    /\ idx = Len(hist)

\* C7: a commit made by a patch leaves the path and the hash of the address
\* as they were, and every key that is not a key of the patch keeps its
\* sequence of values.
C7_CommitFrame ==
    [][(log'.op = "patch" /\ log'.commits # <<>>) =>
          /\ location'.pathname = location.pathname
          /\ location'.hash = location.hash
          /\ \A key \in AllKeys \ PatchedKeys(log'.patch) :
                spGetAll(query', key) = spGetAll(query, key)]_vars

\* a patch committed on an address with a path, a hash and two values of a
\* key that is in no type map
C7_Witness ==
    /\ log.op = "patch"
    /\ log.commits # <<>>
    /\ location.hash = "#h"
    /\ spGetAll(query, "z") = <<"9", "8">>
    /\ spGetAll(query, "b") = <<"x">>

\* C8: when the raw value of a key decodes and its validator returns false,
\* the held value of the key is the configured default, the error callback
\* was called once for the key in that read, and the validator was called
\* once, on the decoded value.
C8_ValidationReplaced ==
    \A i \in Mounted :
        LET prof == ProfileOf(i)
        IN  \A key \in ConfigKeys(prof) :
                LET raw == spGet(query, key)
                IN  (/\ TypeOf(prof, key) = "number"
                     /\ prof.validation[key] = "positive"
                     /\ raw.some
                     /\ IsNumeric(raw.s)
                     /\ NumberOf(raw.s) <= 0)
                    => /\ inst[i].params[key] = prof.defaultValues[key]
                       /\ SelectSeq(inst[i].errs, LAMBDA e : e.key = key)
                            = <<ErrorCall(key, "validation", Num(NumberOf(raw.s)))>>
                       /\ SelectSeq(inst[i].vcalls, LAMBDA c : c.key = key)
                            = <<[key |-> key, value |-> Num(NumberOf(raw.s))]>>

\* the handler of an instance whose default fails the validator too read
\* page=-1 after a patch committed it
C8_Witness ==
    /\ log.op = "patch"
    /\ log.calls # <<>>
    /\ inst[1].prof = 3
    /\ spGet(query, "page") = Some("-1")
    /\ inst[1].params["page"] = Num(0)

IsSortedByKey(sp) ==
    \A m, n \in 1..Len(sp) : m < n => KeyRank(sp[m].k) <= KeyRank(sp[n].k)

Reversed(patch) == [n \in 1..Len(patch) |-> patch[Len(patch) + 1 - n]]

\* C9: with sortKeys, the address a committing patch produces has its keys
\* in ascending order, the keys the patch does not name keeping their values
\* in order, and the patch with its keys in the opposite order produces the
\* same address.
C9_SortedKeys ==
    [][(log'.op = "patch" /\ Profiles[inst[log'.inst].prof].sortKeys) =>
          /\ log'.commits # <<>> =>
                /\ IsSortedByKey(query')
                /\ \A key \in AllKeys \ PatchedKeys(log'.patch) :
                      spGetAll(query', key) = spGetAll(query, key)
          /\ LET other == syncParams(World, Profiles[inst[log'.inst].prof],
                                     Reversed(log'.patch), log'.mode).world
             IN  other.hist = hist' /\ other.idx = idx']_vars

\* the patch {b: 'x', a: 'y'} committed on an address without query
C9_Witness ==
    /\ log.op = "patch"
    /\ LogProfile.sortKeys
    /\ log.patch = <<[k |-> "b", val |-> Str("x")], [k |-> "a", val |-> Str("y")]>>
    /\ log.commits # <<>>
    /\ query = <<Pair("a", "y"), Pair("b", "x")>>

\* the values of a list key a patch asks for
ListValues(val) == IF val.t = "array" THEN val.a ELSE <<>>

\* C10: after a patch of a string-list key the address holds for the key the
\* elements of the sequence, in order, and nothing else (nothing for an empty
\* sequence or a value that is no array), and the instance holds a non-empty
\* sequence as it was patched.
C10_ListEncoding ==
    log.op = "patch" =>
        \A n \in 1..Len(log.patch) :
            LET key == log.patch[n].k
                values == ListValues(log.patch[n].val)
            IN  TypeOf(LogProfile, key) = "string[]" =>
                    /\ spGetAll(query, key) = values
                    /\ values # <<>> =>
                          inst[log.inst].params[key] = Arr(values, "fresh")

\* a patch replaced the values of a list key of the address by two values
C10_Witness ==
    /\ log.op = "patch"
    /\ log.commits # <<>>
    /\ log.patch = <<[k |-> "tags", val |-> Arr(<<"a", "b">>, "arg")]>>
    /\ query = <<Pair("z", "9"), Pair("tags", "a"), Pair("tags", "b")>>
    /\ inst[1].params["tags"] = Arr(<<"a", "b">>, "fresh")

\* a value of the type that its encoding can represent
Representable(type, val) ==
    CASE type = "string" -> val.t = "string"
      [] type = "number" -> val.t = "number"
      [] type = "boolean" -> val.t = "boolean"
      [] type = "date" -> val.t = "date"
      [] type = "string[]" -> val.t = "array" /\ Len(val.a) > 0
      [] type = "object" -> val.t = "object" /\ val.o # "cyclic"
      [] OTHER -> FALSE

\* a value of the type that its encoding cannot represent
Unrepresentable(type, val) ==
    \/ type = "number" /\ val.t = "nonfinite"
    \/ type = "date" /\ val.t = "invaliddate"
    \/ type = "string[]" /\ val.t = "array" /\ Len(val.a) = 0
    \/ type = "object" /\ val.t = "object" /\ val.o = "cyclic"

\* equal as values, whichever objects hold them
SameValue(a, b) ==
    /\ a.t = b.t
    /\ CASE a.t = "date" -> a.ms = b.ms
         [] a.t = "array" -> a.a = b.a
         [] a.t = "object" -> a.o = b.o
         [] OTHER -> a = b

\* after a patch, the entry n of the patch round-trips: the instance holds
\* the value patched, or the key is absent when the value has no encoding
RoundTrips(n) ==
    LET key == log.patch[n].k
        val == log.patch[n].val
        type == TypeOf(LogProfile, key)
    IN  /\ Representable(type, val) => SameValue(inst[log.inst].params[key], val)
        /\ Unrepresentable(type, val) => spGetAll(query, key) = <<>>

\* the keys of the patch encoded by the codec of their type
CodecEntries ==
    {n \in 1..Len(log.patch) : LogProfile.custom[log.patch[n].k] = "none"}

\* C11 as stated: after a patch of a key with a value its type's encoding
\* can represent, the instance holds the value patched; a value the encoding
\* cannot represent leaves the key absent from the address.
C11_RoundTripAlways ==
    log.op = "patch" => \A n \in CodecEntries : RoundTrips(n)

\* C11: after a patch of a key with a value its type's encoding can
\* represent, and that the key's validator (if any) accepts, the instance
\* holds the value patched; a value the encoding cannot represent leaves the
\* key absent from the address.
C11_RoundTrip ==
    log.op = "patch" =>
        \A n \in CodecEntries :
            Validate(LogProfile.validation[log.patch[n].k], log.patch[n].val)
            => RoundTrips(n)

\* a committed patch of a date key, read back as a date of the same time
C11_Witness ==
    /\ log.op = "patch"
    /\ log.commits # <<>>
    /\ log.patch = <<[k |-> "d", val |-> DateV(1, "arg")]>>
    /\ spGet(query, "d") = Some("1970-01-01T00:00:00.001Z")
    /\ inst[1].params["d"] = DateV(1, "fresh")

ScalarTypes == {"string", "number", "boolean", "date"}

\* C12: a patch that gives a scalar key a value that does not conform to the
\* key's type, or for which the custom serializer throws, leaves the key
\* absent from the address, and the error callback is called for the key.
C12_SerializeFailureReported ==
    log.op = "patch" =>
        \A n \in 1..Len(log.patch) :
            LET key == log.patch[n].k
                val == log.patch[n].val
                type == TypeOf(LogProfile, key)
                custom == LogProfile.custom[key]
            IN  (/\ type \in ScalarTypes
                 /\ \/ /\ custom = "none"
                       /\ val.t # "undefined"
                       /\ ~Representable(type, val)
                    \/ /\ custom # "none"
                       /\ CustomSerializerThrows(custom, val))
                => /\ spGetAll(query, key) = <<>>
                   /\ LogProfile.onError =>
                         \E m \in 1..Len(log.errs) : log.errs[m].key = key

\* the raw string of a key does not conform to the type of the key
ParseFails(prof, key, raw) ==
    LET type == TypeOf(prof, key)
        custom == prof.custom[key]
    IN  IF custom # "none"
        THEN CustomParserThrows(custom, raw)
        ELSE \/ type = "number" /\ ~IsNumeric(raw)
             \/ type = "boolean" /\ raw \notin {"true", "1", "false", "0"}
             \/ type = "date" /\ ~IsDateString(raw)

\* the address without the pairs of a key
WithoutKey(loc, key) ==
    [loc EXCEPT !.search = QueryText(spDelete(ParseQuery(@), key), FALSE)]

\* C13: when the raw string of a scalar key does not conform to the key's
\* type, the instance holds the configured default for the key (nothing when
\* there is none), the error callback was called with the key and the raw
\* string, and the other keys have the values they have when the key is not
\* in the address at all.
C13_ParseFailure ==
    \A i \in Mounted :
        LET prof == ProfileOf(i)
        IN  \A key \in ConfigKeys(prof) :
                LET raw == spGet(query, key)
                IN  (/\ TypeOf(prof, key) \in ScalarTypes
                     /\ raw.some
                     /\ ParseFails(prof, key, raw.s))
                    => /\ inst[i].params[key] = prof.defaultValues[key]
                       /\ prof.onError =>
                             \E m \in 1..Len(inst[i].errs) :
                                 inst[i].errs[m] = ErrorCall(key, "parse", Str(raw.s))
                       /\ \A other \in ConfigKeys(prof) \ {key} :
                             SameValue(inst[i].params[other],
                                       getParams(prof, WithoutKey(location, key)).out[other])

\* the handler read an address in which f is no boolean literal, after a
\* patch of d committed
C13_Witness ==
    /\ log.op = "patch"
    /\ log.calls # <<>>
    /\ spGet(query, "f") = Some("maybe")
    /\ inst[1].params["f"] = Undefined
    /\ inst[1].params["d"] = DateV(1, "fresh")
    /\ inst[1].errs = <<ErrorCall("f", "parse", Str("maybe"))>>

\* C14: patchCount is never negative, and whenever it is 0 history.pushState
\* and history.replaceState are the primitives that were there before the
\* patch.
C14_CounterAndRestore ==
    /\ patchCount >= 0
    /\ patchCount = 0 =>
          historyPushState = "native" /\ historyReplaceState = "native"

\* an unmount took the counter back to 0
C14_Witness ==
    /\ log.op = "unmount"
    /\ patchCount = 0
    /\ ~isHistoryPatched
    /\ historyPushState = "native"

\* C15: history.pushState and history.replaceState are the original
\* primitives or the wrapper around the original primitives, and the saved
\* originals are never a wrapper.
C15_NoDoublePatch ==
    /\ originalPushState # "wrapper"
    /\ originalReplaceState # "wrapper"
    /\ historyPushState = "wrapper" => originalPushState = "native"
    /\ historyReplaceState = "wrapper" => originalReplaceState = "native"
    /\ historyPushState = "native" => originalPushState = "null"
    /\ historyReplaceState = "native" => originalReplaceState = "null"

\* a second instance mounted while the history was patched
C15_Witness ==
    /\ log.op = "mount"
    /\ Cardinality(Mounted) = 2
    /\ historyPushState = "wrapper"
    /\ originalPushState = "native"

\* two snapshots with the same value for every key
SameSnapshot(a, b) ==
    /\ DOMAIN a = DOMAIN b
    /\ \A k \in DOMAIN a : SameValue(a[k], b[k])

\* C16: a handler publishes a snapshot only when the snapshot it read
\* differs from the one the instance holds; a notification that finds the
\* same values publishes nothing, whatever the types of the keys.
C16_PublishOnlyIfDifferent ==
    [][\A n \in 1..Len(log'.pubs) :
          ~SameSnapshot(inst[log'.pubs[n]].params, inst'[log'.pubs[n]].params)]_vars

\* C17: a commit (of a patch, or of a pushState/replaceState call of other
\* code while the history is patched) is followed by one broadcast: every
\* registered handler is called once, in registration order.
C17_OneBroadcastPerCommit ==
    (\/ log.op = "patch" /\ log.commits # <<>>
     \/ log.op \in {"pushState", "replaceState"} /\ Intercepting)
    => log.calls = subs

\* the validator calls of the last read of an instance for a key
ValidatorCalls(i, key) == SelectSeq(inst[i].vcalls, LAMBDA c : c.key = key)

\* the raw string of a number key decodes
Decodes(raw) == raw.some /\ IsNumeric(raw.s)

\* C18 as stated: in a read the validator of a key is called at most once,
\* and only on a value decoded from the address, never on a default that was
\* substituted.
C18_ValidatesDecodedOnly ==
    \A i \in Mounted : \A key \in ConfigKeys(ProfileOf(i)) :
        /\ Len(ValidatorCalls(i, key)) <= 1
        /\ ValidatorCalls(i, key) # <<>> =>
              /\ Decodes(spGet(query, key))
              /\ ValidatorCalls(i, key)[1].value = Num(NumberOf(spGet(query, key).s))

\* C18: in a read the validator of a key is called at most once, on the
\* value decoded from the address or, when nothing decodes, on the default
\* substituted for it; the default that replaces a rejected value is not
\* validated.
C18_ValidatorSinglePass ==
    \A i \in Mounted : \A key \in ConfigKeys(ProfileOf(i)) :
        /\ Len(ValidatorCalls(i, key)) <= 1
        /\ ValidatorCalls(i, key) # <<>> =>
              ValidatorCalls(i, key)[1].value =
                  IF Decodes(spGet(query, key))
                  THEN Num(NumberOf(spGet(query, key).s))
                  ELSE ProfileOf(i).defaultValues[key]

\* the handler read an address without the key after a patch removed it: the
\* validator was called once, on the default, which it rejects
C18_Witness ==
    /\ log.op = "patch"
    /\ log.calls # <<>>
    /\ inst[1].prof = 3
    /\ ~spGet(query, "page").some
    /\ inst[1].vcalls = <<[key |-> "page", value |-> Num(0)]>>
    /\ inst[1].errs = <<ErrorCall("page", "validation", Num(0))>>
    /\ inst[1].params["page"] = Num(0)

\* the values a key has in the address after a patch of the key with val
EncodingOf(prof, key, val) ==
    LET type == TypeOf(prof, key)
        single == serializeSingle(val, type, prof.custom[key], prof.onError, key).res
    IN  IF type = "string[]" THEN ListValues(val)
        ELSE IF type = "object"
        THEN IF serializeObject(val).some THEN <<serializeObject(val).s>> ELSE <<>>
        ELSE IF single.some THEN <<single.s>> ELSE <<>>

\* the value the patch gives the key: that of its last entry for the key
PatchedValue(patch, key) ==
    patch[CHOOSE n \in 1..Len(patch) :
             /\ patch[n].k = key
             /\ \A m \in (n + 1)..Len(patch) : patch[m].k # key].val

\* C19: a patch is applied to the query string the address has when it is
\* requested: after it every key of the patch has in the address the
\* encoding of the patch's value (no pair when there is no encoding), and
\* every other key has the values it had, whichever instance patched before.
C19_NoLostUpdate ==
    [][log'.op = "patch" =>
          LET prof == Profiles[inst[log'.inst].prof]
              after == getSearchParams(hist'[idx'])
          IN  \A key \in AllKeys :
                 spGetAll(after, key) =
                     IF key \in PatchedKeys(log'.patch)
                     THEN EncodingOf(prof, key, PatchedValue(log'.patch, key))
                     ELSE spGetAll(query, key)]_vars

\* the second instance has patched its key b after the first patched page:
\* the address has both
C19_Witness ==
    /\ log.op = "patch"
    /\ log.inst = 2
    /\ log.patch = <<[k |-> "b", val |-> Str("x")]>>
    /\ log.commits # <<>>
    /\ spGetAll(query, "b") = <<"x">>
    /\ spGetAll(query, "page") = <<"2">>

\* the members of a list
Members(list) == {list[n] : n \in 1..Len(list)}

\* C20: a patch that commits broadcasts itself, intercepted history or not:
\* after it every instance whose handler is registered was called and holds
\* the snapshot read from the new address; a patch that does not commit
\* calls no handler and changes no held snapshot.
C20_PatchBroadcasts ==
    [][log'.op = "patch" =>
          IF log'.commits = <<>>
          THEN log'.calls = <<>> /\ inst' = inst
          ELSE \A i \in Members(subs') :
                  /\ i \in Members(log'.calls)
                  /\ inst'[i].params =
                         getParams(Profiles[inst'[i].prof], hist'[idx']).out]_vars

\* a patch committed while the native primitives were back in place with an
\* instance still mounted: its handler ran once, from the patch's broadcast
C20_Witness ==
    /\ log.op = "patch"
    /\ log.commits # <<>>
    /\ ~Intercepting
    /\ subs # <<>>
    /\ log.calls = subs
    /\ \A i \in Mounted : inst[i].params = getParams(ProfileOf(i), location).out

\* the session history after one native call fn to the address url
AfterCommit(fn, url) ==
    IF fn = "pushState" THEN NativePushState(hist, idx, url)
    ELSE NativeReplaceState(hist, idx, url)

\* C21: a patch request ends after at most one commit and a bounded number
\* of handler invocations: the handlers only read the address, so the
\* session history after the patch is the one before it or the result of
\* the patch's single native call, and no handler runs more than twice
\* (once for each broadcast of the commit); without a commit none runs.
C21_PatchTerminates ==
    [][log'.op = "patch" =>
          /\ Len(log'.commits) <= 1
          /\ Len(log'.calls) <= 2 * Len(subs)
          /\ \A i \in Instances :
                Len(SelectSeq(log'.calls, LAMBDA j : j = i)) <= 2
          /\ Members(log'.pubs) \subseteq Members(log'.calls)
          /\ IF log'.commits = <<>>
             THEN log'.calls = <<>> /\ hist' = hist /\ idx' = idx
             ELSE /\ hist' = AfterCommit(log'.commits[1], hist'[idx']).hist
                  /\ idx' = AfterCommit(log'.commits[1], hist'[idx']).idx]_vars

\* a patch committed with two instances mounted and the history intercepted:
\* one commit, each handler called by both broadcasts, and nothing after
C21_Witness ==
    /\ log.op = "patch"
    /\ Len(log.commits) = 1
    /\ Len(subs) = 2
    /\ Intercepting
    /\ log.calls = subs \o subs

====
